---- MODULE Spec2Model ----
(***************************************************************************)
(* Model of the photo watermark tool (src/main.py).                        *)
(*                                                                         *)
(* Strings are tuples of one-character strings, so that the conversions    *)
(* the program applies to them (str.strip results, str.lower, str.split,   *)
(* int, datetime.strptime, os.path.splitext/basename/dirname/join) are     *)
(* computed and not assumed.                                               *)
(*                                                                         *)
(* Assumptions of the model, stated once:                                  *)
(*  - print never fails (the console accepts every message);               *)
(*  - only exceptions derived from Exception are modelled (no              *)
(*    KeyboardInterrupt, no process kill);                                 *)
(*  - the file system changes only through this program while it runs.     *)
(***************************************************************************)
EXTENDS Integers, Sequences, FiniteSets, TLC

VARIABLES
    pc,             \* where main is: the statement it executes next
    image_path,     \* line 103
    font_size,      \* line 113
    font_color_str, \* line 116
    position,       \* lines 119 and 128
    opacity,        \* lines 122 and 133
    font_color,     \* lines 136-154
    fs,             \* the file system: resolved path |-> node
    fs0,            \* the file system when the first run started
    msg,            \* what the last step printed
    pending,        \* entries of the directory listing the loop has yet to take
    cur,            \* file_name of the entry being processed, <<>> when none
    started,        \* listing entry |-> how often its processing began
    finished,       \* listing entry |-> how often add_watermark returned for it
    targets,        \* <<file_path, output_path>> of this run's add_watermark calls
    prev_targets,   \* targets of the previous run
    run,            \* the number of this run of the program
    exif_in,        \* the last call of get_exif_datetime: its file and environment
    exif_out,       \* what that call returned
    wm_in,          \* the last call of add_watermark: its arguments and environment
    wm_out          \* what that call returned and left at output_path

paramVars == <<image_path, font_size, font_color_str, position, opacity, font_color>>

loopVars == <<pending, cur, started, finished, targets>>

runVars == <<prev_targets, run>>

exifVars == <<exif_in, exif_out>>

wmVars == <<wm_in, wm_out>>

vars == <<pc, image_path, font_size, font_color_str, position, opacity, font_color,
          fs, fs0, msg, pending, cur, started, finished, targets, prev_targets, run,
          exif_in, exif_out, wm_in, wm_out>>

\* Marker of "no call made yet" for the call records.
NoCall == [kind |-> "none"]

(***************************************************************************)
(* Character and string helpers.                                           *)
(***************************************************************************)
Digits == {"0", "1", "2", "3", "4", "5", "6", "7", "8", "9"}

DigitVal(c) ==
    CASE c = "0" -> 0 [] c = "1" -> 1 [] c = "2" -> 2 [] c = "3" -> 3
      [] c = "4" -> 4 [] c = "5" -> 5 [] c = "6" -> 6 [] c = "7" -> 7
      [] c = "8" -> 8 [] c = "9" -> 9

DigitChar(n) ==
    CASE n = 0 -> "0" [] n = 1 -> "1" [] n = 2 -> "2" [] n = 3 -> "3"
      [] n = 4 -> "4" [] n = 5 -> "5" [] n = 6 -> "6" [] n = 7 -> "7"
      [] n = 8 -> "8" [] n = 9 -> "9"

AllDigits(s) == Len(s) > 0 /\ \A i \in 1..Len(s) : s[i] \in Digits

DigitsVal(s) ==
    LET val[i \in 0..Len(s)] ==
            IF i = 0 THEN 0 ELSE 10 * val[i - 1] + DigitVal(s[i])
    IN  val[Len(s)]

\* str.split(sep) for a one-character separator: empty fields are kept and
\* the result always has at least one field.
Split(s, sep) ==
    LET Fields(str, cut) ==
            [k \in 1..(Len(cut) - 1) |-> SubSeq(str, cut[k] + 1, cut[k + 1] - 1)]
        \* the positions of the separators, with 0 before and Len + 1 after
        Cuts(str) ==
            <<0>> \o SelectSeq([i \in 1..Len(str) |-> i], LAMBDA i : str[i] = sep)
                 \o <<Len(str) + 1>>
    IN  CHOOSE r \in UNION {{Fields(str, cut) : cut \in {Cuts(str)}} : str \in {s}} : TRUE

\* str.strip(): blanks removed at both ends (lines 103-121).
Strip(s) ==
    LET inked == {i \in 1..Len(s) : s[i] # " "}
    IN  IF inked = {} THEN <<>>
        ELSE SubSeq(s, CHOOSE i \in inked : \A j \in inked : i <= j,
                       CHOOSE i \in inked : \A j \in inked : i >= j)

UpperLetters ==
    <<"A","B","C","D","E","F","G","H","I","J","K","L","M",
      "N","O","P","Q","R","S","T","U","V","W","X","Y","Z">>

LowerLetters ==
    <<"a","b","c","d","e","f","g","h","i","j","k","l","m",
      "n","o","p","q","r","s","t","u","v","w","x","y","z">>

LowerChar(c) ==
    IF \E i \in 1..26 : UpperLetters[i] = c
    THEN LowerLetters[CHOOSE i \in 1..26 : UpperLetters[i] = c]
    ELSE c

\* str.lower()
lower(s) == [i \in 1..Len(s) |-> LowerChar(s[i])]

\* str.rfind(c) + 1: the last position of c in s, 0 when there is none.
RFind(s, c) ==
    IF \E i \in 1..Len(s) : s[i] = c
    THEN CHOOSE i \in 1..Len(s) : s[i] = c /\ \A j \in (i + 1)..Len(s) : s[j] # c
    ELSE 0

\* int(s) of Python for a string: blanks around, an optional sign, decimal
\* digits.  ok = FALSE is the ValueError.
ParseInt(s) ==
    LET t == Strip(s)
        signed == Len(t) > 0 /\ t[1] \in {"+", "-"}
        body == IF signed THEN Tail(t) ELSE t
    IN  IF AllDigits(body)
        THEN [ok |-> TRUE,
              value |-> IF signed /\ t[1] = "-" THEN -DigitsVal(body) ELSE DigitsVal(body)]
        ELSE [ok |-> FALSE, value |-> 0]

(***************************************************************************)
(* os.path on POSIX paths.                                                 *)
(***************************************************************************)
\* os.path.basename
basename(p) == SubSeq(p, RFind(p, "/") + 1, Len(p))

\* str.rstrip('/')
RStripSlash(s) ==
    LET kept == {i \in 1..Len(s) : s[i] # "/"}
    IN  IF kept = {} THEN <<>>
        ELSE SubSeq(s, 1, CHOOSE i \in kept : \A j \in kept : i >= j)

\* os.path.dirname
dirname(p) ==
    LET head == SubSeq(p, 1, RFind(p, "/"))
    IN  IF Len(head) > 0 /\ \E i \in 1..Len(head) : head[i] # "/"
        THEN RStripSlash(head) ELSE head

\* os.path.join(a, b)
join(a, b) ==
    IF Len(b) > 0 /\ b[1] = "/" THEN b
    ELSE IF Len(a) = 0 \/ a[Len(a)] = "/" THEN a \o b
    ELSE a \o <<"/">> \o b

\* os.path.splitext(p)[1]: from the last dot of the last component, unless
\* that component has nothing but dots before it.
splitext(p) ==
    LET sepIndex == RFind(p, "/")
        dotIndex == RFind(p, ".")
    IN  IF dotIndex > sepIndex
           /\ \E k \in (sepIndex + 1)..(dotIndex - 1) : p[k] # "."
        THEN SubSeq(p, dotIndex, Len(p))
        ELSE <<>>

\* The components the kernel walks for a relative path: empty components and
\* "." are dropped.
IsComponent(part) == part # <<>> /\ part # <<".">>

DropEmpty(parts) == SelectSeq(parts, IsComponent)

Resolve(p) == DropEmpty(Split(p, "/"))

(***************************************************************************)
(* datetime.strptime(date_str, '%Y:%m:%d %H:%M:%S') on strings of the      *)
(* shape f:f:f f:f:f.  %Y takes exactly four digits, every other field one *)
(* or two; the values must form a date datetime can hold (year >= 1, a     *)
(* real day of the month, hour < 24, minute and second < 60).  Anything    *)
(* else is the ValueError of line 21.                                      *)
(***************************************************************************)
IsLeap(y) == (y % 4 = 0 /\ y % 100 # 0) \/ y % 400 = 0

DaysInMonth(y, m) ==
    IF m = 2 THEN (IF IsLeap(y) THEN 29 ELSE 28)
    ELSE IF m \in {4, 6, 9, 11} THEN 30 ELSE 31

Field12(f) == AllDigits(f) /\ Len(f) \in {1, 2}

NoDate == [ok |-> FALSE, value |-> <<0, 0, 0, 0, 0, 0>>]

\* The date of the fields d = <<year, month, day>> and t = <<hour, minute,
\* second>>, each a string.
DateOfFields(d, t) ==
    IF /\ Len(d) = 3 /\ Len(t) = 3
       /\ AllDigits(d[1]) /\ Len(d[1]) = 4
       /\ Field12(d[2]) /\ Field12(d[3])
       /\ Field12(t[1]) /\ Field12(t[2]) /\ Field12(t[3])
    THEN CHOOSE r \in {IF /\ y >= 1
                          /\ mo \in 1..12
                          /\ dd >= 1 /\ dd <= DaysInMonth(y, mo)
                          /\ h \in 0..23 /\ mi \in 0..59 /\ sec \in 0..59
                       THEN [ok |-> TRUE, value |-> <<y, mo, dd, h, mi, sec>>]
                       ELSE NoDate :
                           y \in {DigitsVal(d[1])}, mo \in {DigitsVal(d[2])},
                           dd \in {DigitsVal(d[3])}, h \in {DigitsVal(t[1])},
                           mi \in {DigitsVal(t[2])}, sec \in {DigitsVal(t[3])}} : TRUE
    ELSE NoDate

strptime(date_str) ==
    CHOOSE r \in {IF Len(halves) = 2
                  THEN CHOOSE q \in {DateOfFields(d, t) :
                                        d \in {Split(halves[1], ":")},
                                        t \in {Split(halves[2], ":")}} : TRUE
                  ELSE NoDate :
                      halves \in {Split(date_str, " ")}} : TRUE

\* n written with at least `width` digits, zero padded.
RECURSIVE Pad(_, _)
Pad(n, width) ==
    IF width <= 1 /\ n < 10 THEN <<DigitChar(n)>>
    ELSE Pad(n \div 10, width - 1) \o <<DigitChar(n % 10)>>

\* datetime_obj.strftime('%Y-%m-%d'), lines 188 and 219.
strftime(dt) == Pad(dt[1], 4) \o <<"-">> \o Pad(dt[2], 2) \o <<"-">> \o Pad(dt[3], 2)

(***************************************************************************)
(* get_exif_datetime, lines 7-30.                                          *)
(*                                                                         *)
(* A file is [readable, exif_ok, tags, mtime_ok, mtime]: whether open      *)
(* succeeds, whether exifread.process_file returns, the tags it returns,   *)
(* whether os.path.getmtime/datetime.fromtimestamp succeed and the         *)
(* datetime they give.  env.now is what datetime.now() returns.            *)
(***************************************************************************)
TagOriginal == "EXIF DateTimeOriginal"
TagDigitized == "EXIF DateTimeDigitized"
TagImage == "Image DateTime"

\* Line 14.
datetime_tags == <<TagOriginal, TagDigitized, TagImage>>

TagNames == {TagOriginal, TagDigitized, TagImage}

\* A variant of the tag loop that gives up at the first present tag that does
\* not parse (break where the code has continue).
RECURSIVE TagLoopBreak(_, _)
TagLoopBreak(tags, i) ==
    IF i > Len(datetime_tags)
    THEN [found |-> FALSE, value |-> <<0, 0, 0, 0, 0, 0>>]
    ELSE LET tag == datetime_tags[i]
             parsed == strptime(tags[tag].value)
         IN  IF tags[tag].present
             THEN [found |-> parsed.ok, value |-> parsed.value]
             ELSE TagLoopBreak(tags, i + 1)

\* Lines 15-22: the first tag, in the order of datetime_tags, that is in
\* tags and whose string parses; found = FALSE when the loop falls through.
RECURSIVE TagLoop(_, _)
TagLoop(tags, i) ==
    IF i > Len(datetime_tags)
    THEN [found |-> FALSE, value |-> <<0, 0, 0, 0, 0, 0>>]
    ELSE LET tag == datetime_tags[i]
             parsed == strptime(tags[tag].value)
         IN  IF tags[tag].present /\ parsed.ok
             THEN [found |-> TRUE, value |-> parsed.value]
             ELSE TagLoop(tags, i + 1)

\* A variant of the try body with a single fallback: the current time is
\* used whenever no tag parses, the modification time never.
ExifTryBodyOneFallback(file) ==
    IF ~file.readable THEN [kind |-> "raise", value |-> <<0, 0, 0, 0, 0, 0>>]
    ELSE IF ~file.exif_ok THEN [kind |-> "raise", value |-> <<0, 0, 0, 0, 0, 0>>]
    ELSE LET r == TagLoop(file.tags, 1)
         IN  IF r.found THEN [kind |-> "return", value |-> r.value]
             ELSE [kind |-> "raise", value |-> <<0, 0, 0, 0, 0, 0>>]

\* Lines 10-26, the body of the try: what it returns or that it raised.
ExifTryBody(file) ==
    IF ~file.readable THEN [kind |-> "raise", value |-> <<0, 0, 0, 0, 0, 0>>]
    ELSE IF ~file.exif_ok THEN [kind |-> "raise", value |-> <<0, 0, 0, 0, 0, 0>>]
    ELSE LET r == TagLoop(file.tags, 1)
         IN  IF r.found THEN [kind |-> "return", value |-> r.value]
             ELSE IF ~file.mtime_ok
                  THEN [kind |-> "raise", value |-> <<0, 0, 0, 0, 0, 0>>]
                  ELSE [kind |-> "return", value |-> file.mtime]

\* Lines 9-30: the except clause turns every raise into datetime.now() and
\* prints the failure.
get_exif_datetime(file, env) ==
    LET body == ExifTryBody(file)
    IN  IF body.kind = "raise"
        THEN [kind |-> "return", value |-> env.now, printed |-> TRUE]
        ELSE [kind |-> "return", value |-> body.value, printed |-> FALSE]

(***************************************************************************)
(* add_watermark, lines 32-97.                                             *)
(*                                                                         *)
(* An image file is [decodable, size]: whether Image.open(...).convert     *)
(* succeeds and the pixel size <<W, H>> it yields.  What is at output_path *)
(* is a record [exists, complete, size]: complete says the file is a whole *)
(* encoded image, size its pixel size.                                     *)
(*                                                                         *)
(* env holds what the libraries and the platform decide:                   *)
(*   os_name      os.name, line 45                                         *)
(*   loadable     the font files ImageFont.truetype can load               *)
(*   font_error   the first truetype call raises something that is not an  *)
(*                IOError (a ValueError for a size that is not positive)   *)
(*   has_getbbox  the font has getbbox; otherwise draw.textsize is used    *)
(*   bbox         what font.getbbox(text) returns, <<x0, y0, x1, y1>>      *)
(*   textsize     what draw.textsize(text, font) returns, <<w, h>>         *)
(*   save         what Image.save does: "ok", or it raises before it opens *)
(*                output_path ("fail_before_open": no such directory, no   *)
(*                permission), or it raises after it opened output_path    *)
(*                for writing, which created or truncated the file         *)
(*                ("fail_after_open": the disk is full, the encoder fails) *)
(*   save_cleanup on a failure after open, the library removes the file if *)
(*                that call created it (newer Pillow) or leaves it         *)
(***************************************************************************)
Margin == 10

PosTopLeft == <<"t","o","p","_","l","e","f","t">>
PosTopRight == <<"t","o","p","_","r","i","g","h","t">>
PosBottomLeft == <<"b","o","t","t","o","m","_","l","e","f","t">>
PosBottomRight == <<"b","o","t","t","o","m","_","r","i","g","h","t">>
PosCenter == <<"c","e","n","t","e","r">>

\* Line 125.
valid_positions == {PosTopLeft, PosTopRight, PosBottomLeft, PosBottomRight, PosCenter}

NoFile == [exists |-> FALSE, complete |-> FALSE, size |-> <<0, 0>>]

WholeFile(size) == [exists |-> TRUE, complete |-> TRUE, size |-> size]

BrokenFile == [exists |-> TRUE, complete |-> FALSE, size |-> <<0, 0>>]

FontArialWindows == "C:/Windows/Fonts/arial.ttf"
FontArial == "arial.ttf"
FontPingFang == "/System/Library/Fonts/PingFang.ttc"
FontDejaVu == "/usr/share/fonts/truetype/dejavu/DejaVuSans.ttf"
FontDefault == "load_default"

\* Lines 43-60: the font that is used, and whether the warning of line 60 is
\* printed; raised = an exception that is not an IOError left the chain.
LoadFont(env) ==
    LET first == IF env.os_name = "nt" THEN FontArialWindows ELSE FontArial
    IN  IF env.font_error THEN [raised |-> TRUE, face |-> first, warned |-> FALSE]
        ELSE IF first \in env.loadable
             THEN [raised |-> FALSE, face |-> first, warned |-> FALSE]
        ELSE IF FontPingFang \in env.loadable
             THEN [raised |-> FALSE, face |-> FontPingFang, warned |-> FALSE]
        ELSE IF FontDejaVu \in env.loadable
             THEN [raised |-> FALSE, face |-> FontDejaVu, warned |-> FALSE]
        ELSE [raised |-> FALSE, face |-> FontDefault, warned |-> TRUE]

\* Lines 64-71: <<text_width, text_height>>.
MeasureText(env) ==
    IF env.has_getbbox
    THEN <<env.bbox[3] - env.bbox[1], env.bbox[4] - env.bbox[2]>>
    ELSE env.textsize

\* Division rounding toward zero, as C's / does.
TruncDiv(a, b) == IF a >= 0 THEN a \div b ELSE -((-a) \div b)

\* A variant of the position rule whose centre rounds toward zero.
CoordsTruncating(pos, W, H, tw, th) ==
    IF pos = PosTopLeft THEN <<Margin, Margin>>
    ELSE IF pos = PosTopRight THEN <<W - tw - Margin, Margin>>
    ELSE IF pos = PosBottomLeft THEN <<Margin, H - th - Margin>>
    ELSE IF pos = PosCenter THEN <<TruncDiv(W - tw, 2), TruncDiv(H - th, 2)>>
    ELSE <<W - tw - Margin, H - th - Margin>>

\* Lines 73-83: where the text is drawn.  Python's // rounds toward minus
\* infinity, as \div does.
Coords(pos, W, H, tw, th) ==
    IF pos = PosTopLeft THEN <<Margin, Margin>>
    ELSE IF pos = PosTopRight THEN <<W - tw - Margin, Margin>>
    ELSE IF pos = PosBottomLeft THEN <<Margin, H - th - Margin>>
    ELSE IF pos = PosCenter THEN <<(W - tw) \div 2, (H - th) \div 2>>
    ELSE <<W - tw - Margin, H - th - Margin>>

\* Line 92, combined.convert('RGB').save(output_path): whether it raised and
\* what is at output_path afterwards.
SaveImage(before, size, env) ==
    CASE env.save = "ok" ->
            [raised |-> FALSE, after |-> WholeFile(size)]
      [] env.save = "fail_before_open" ->
            [raised |-> TRUE, after |-> before]
      [] env.save = "fail_after_open" ->
            [raised |-> TRUE,
             after |-> IF ~before.exists /\ env.save_cleanup
                       THEN NoFile ELSE BrokenFile]

\* Lines 35-94, the body of the try.  raised says an exception left it;
\* xy and fill are the arguments of draw.text (line 86) when it was reached
\* (drew); out_after is what is at output_path when the body ends.
AddWatermarkTry(image, out_before, text, fsize, color, pos, alpha, env) ==
    LET font == LoadFont(env)
        measured == MeasureText(env)
        xy == Coords(pos, image.size[1], image.size[2], measured[1], measured[2])
        fill == color \o <<alpha>>
        \* lines 39 and 89: the layer has image.size, and so has the composite
        combined_size == image.size
        saved == SaveImage(out_before, combined_size, env)
        early == [raised |-> TRUE, drew |-> FALSE, xy |-> <<0, 0>>,
                  fill |-> <<0, 0, 0, 0>>, face |-> FontDefault,
                  out_after |-> out_before]
    IN  IF ~image.decodable THEN early
        ELSE IF font.raised THEN early
        ELSE [raised |-> saved.raised, drew |-> TRUE, xy |-> xy, fill |-> fill,
              face |-> font.face, out_after |-> saved.after]

\* A variant of add_watermark without the except clause of lines 95-97: an
\* exception of the body leaves the function.
add_watermark_uncaught(image, out_before, text, fsize, color, pos, alpha, env) ==
    LET body == AddWatermarkTry(image, out_before, text, fsize, color,
                                pos, alpha, env)
    IN  [ret |-> ~body.raised, raised |-> body.raised, drew |-> body.drew,
         xy |-> body.xy, fill |-> body.fill, face |-> body.face,
         out_after |-> body.out_after]

\* Lines 32-97.  ret is the value returned: True when the body ended, False
\* when it raised (lines 95-97); raised says an exception left add_watermark,
\* which the except clause never lets happen.
add_watermark(image, out_before, text, fsize, color, pos, alpha, env) ==
    LET body == AddWatermarkTry(image, out_before, text, fsize, color,
                                pos, alpha, env)
    IN  [ret |-> ~body.raised, raised |-> FALSE, drew |-> body.drew,
         xy |-> body.xy, fill |-> body.fill, face |-> body.face,
         out_after |-> body.out_after]

(***************************************************************************)
(* Sample data for the date resolver.                                      *)
(***************************************************************************)
\* "2020:05:17 10:30:00"
StrOriginal ==
    <<"2","0","2","0",":","0","5",":","1","7"," ","1","0",":","3","0",":","0","0">>
\* "2019:12:31 23:59:59"
StrDigitized ==
    <<"2","0","1","9",":","1","2",":","3","1"," ","2","3",":","5","9",":","5","9">>
\* "2024:2:29 8:05:00"  (a leap day, one-digit fields)
StrImage ==
    <<"2","0","2","4",":","2",":","2","9"," ","8",":","0","5",":","0","0">>
\* "0000:00:00 00:00:00"  (a camera whose clock was never set)
StrZero ==
    <<"0","0","0","0",":","0","0",":","0","0"," ","0","0",":","0","0",":","0","0">>
\* "2021:02:29 12:00:00"  (not a leap year)
StrNoSuchDay ==
    <<"2","0","2","1",":","0","2",":","2","9"," ","1","2",":","0","0",":","0","0">>
\* "2020-05-17 10:30:00"  (ISO separators)
StrIso ==
    <<"2","0","2","0","-","0","5","-","1","7"," ","1","0",":","3","0",":","0","0">>

BadStrings == {StrZero, StrNoSuchDay, StrIso, <<>>}

Absent == [present |-> FALSE, value |-> <<>>]

Present(s) == [present |-> TRUE, value |-> s]

TagChoices(good) == {Absent, Present(good)} \cup {Present(b) : b \in BadStrings}

SampleTagSets ==
    {[t \in TagNames |->
        CASE t = TagOriginal -> o [] t = TagDigitized -> d [] t = TagImage -> i] :
      o \in TagChoices(StrOriginal), d \in TagChoices(StrDigitized),
      i \in TagChoices(StrImage)}

MtimeValue == <<2023, 7, 4, 9, 15, 0>>

NowValue == <<2026, 1, 2, 3, 4, 5>>

SampleFiles ==
    [readable : BOOLEAN, exif_ok : BOOLEAN, tags : SampleTagSets,
     mtime_ok : BOOLEAN, mtime : {MtimeValue}]

SampleEnv == [now |-> NowValue]

\* "pics/a.jpg"
SamplePath == <<"p","i","c","s","/","a",".","j","p","g">>

\* "pics/pics_watermark/a.jpg"
SampleOutputPath == <<"p","i","c","s","/","p","i","c","s","_","w","a","t","e","r","m","a","r","k","/","a",".","j","p","g">>

\* The driver's variables while only one of the two functions is exercised.
DriverIdle ==
    /\ pc = "idle"
    /\ image_path = <<>> /\ font_size = 0 /\ font_color_str = <<>>
    /\ position = <<>> /\ opacity = 0 /\ font_color = <<>>
    /\ fs = <<>> /\ fs0 = <<>> /\ msg = {}
    /\ pending = {} /\ cur = <<>> /\ started = <<>> /\ finished = <<>>
    /\ targets = {} /\ prev_targets = {} /\ run = 1

driverVars == <<pc, paramVars, fs, fs0, msg, loopVars, runVars>>

(***************************************************************************)
(* Specification of the date resolver alone: any sample file, one call.    *)
(***************************************************************************)
InitExif ==
    /\ DriverIdle
    /\ exif_in \in [path : {SamplePath}, file : SampleFiles, env : {SampleEnv}]
    /\ exif_out = NoCall
    /\ wm_in = NoCall
    /\ wm_out = NoCall

CallExif ==
    /\ exif_out = NoCall
    /\ exif_in # NoCall
    /\ exif_out' = get_exif_datetime(exif_in.file, exif_in.env)
    /\ UNCHANGED <<exif_in, wmVars, driverVars>>

NextExif == CallExif

SpecExif == InitExif /\ [][NextExif]_vars

(***************************************************************************)
(* Specification of the compositor alone: any sample image, style,         *)
(* environment and prior content of output_path, one call.                 *)
(***************************************************************************)
MaxDim == 2

ImageWidths == 1..MaxDim \cup {100}

ImageHeights == 1..MaxDim \cup {50}

SampleImages ==
    [decodable : BOOLEAN, size : ImageWidths \X ImageHeights]

\* The same text measured through either API: 20x10 or 21x11.
SampleMeasures ==
    {[has_getbbox |-> g, bbox |-> <<1, 3, 1 + m[1], 3 + m[2]>>, textsize |-> m] :
        g \in BOOLEAN, m \in {<<20, 10>>, <<21, 11>>}}

SampleFonts ==
    {[os_name |-> "posix", loadable |-> {FontArial, FontDejaVu}, font_error |-> FALSE],
     [os_name |-> "nt", loadable |-> {FontArialWindows}, font_error |-> FALSE],
     [os_name |-> "posix", loadable |-> {FontPingFang, FontDejaVu}, font_error |-> FALSE],
     [os_name |-> "posix", loadable |-> {FontDejaVu}, font_error |-> FALSE],
     [os_name |-> "nt", loadable |-> {FontArial}, font_error |-> FALSE],
     [os_name |-> "posix", loadable |-> {}, font_error |-> TRUE]}

SampleSaves ==
    {[save |-> "ok", save_cleanup |-> TRUE],
     [save |-> "fail_before_open", save_cleanup |-> TRUE],
     [save |-> "fail_after_open", save_cleanup |-> TRUE],
     [save |-> "fail_after_open", save_cleanup |-> FALSE]}

WmEnv(f, m, sv) ==
    [os_name |-> f.os_name, loadable |-> f.loadable, font_error |-> f.font_error,
     has_getbbox |-> m.has_getbbox, bbox |-> m.bbox, textsize |-> m.textsize,
     save |-> sv.save, save_cleanup |-> sv.save_cleanup]

SampleWmEnvs ==
    {WmEnv(f, m, sv) : f \in SampleFonts, m \in SampleMeasures, sv \in SampleSaves}

\* "middle"
PosMiddle == <<"m","i","d","d","l","e">>

SamplePositions == valid_positions \cup {PosMiddle}

SampleOutBefore == {NoFile, WholeFile(<<7, 7>>), BrokenFile}

\* "2020-05-17"
SampleText == <<"2","0","2","0","-","0","5","-","1","7">>

InitWatermark ==
    /\ DriverIdle
    /\ wm_in \in [path : {SamplePath}, output_path : {SampleOutputPath},
                  image : SampleImages, out_before : SampleOutBefore,
                  text : {SampleText}, font_size : {20},
                  font_color : {<<255, 255, 255>>}, position : SamplePositions,
                  opacity : {128}, env : SampleWmEnvs]
    /\ wm_out = NoCall
    /\ exif_in = NoCall
    /\ exif_out = NoCall

CallWatermark ==
    /\ wm_out = NoCall
    /\ wm_in # NoCall
    /\ wm_out' = add_watermark(wm_in.image, wm_in.out_before, wm_in.text,
                               wm_in.font_size, wm_in.font_color, wm_in.position,
                               wm_in.opacity, wm_in.env)
    /\ UNCHANGED <<wm_in, exifVars, driverVars>>

NextWatermark == CallWatermark

SpecWatermark == InitWatermark /\ [][NextWatermark]_vars

(***************************************************************************)
(* The file system.  fs maps the components of a path, as the kernel       *)
(* resolves it from the working directory, to a node.  A node is           *)
(* [kind, complete, size, meta]: a directory, or a file that is a whole    *)
(* image of pixel size `size` or is not (complete), with the metadata      *)
(* get_exif_datetime reads (meta).                                         *)
(***************************************************************************)
NoTags == [t \in TagNames |-> Absent]

PlainMeta ==
    [readable |-> TRUE, exif_ok |-> TRUE, tags |-> NoTags,
     mtime_ok |-> TRUE, mtime |-> MtimeValue]

DirNode == [kind |-> "dir", complete |-> FALSE, size |-> <<0, 0>>, meta |-> PlainMeta]

FileNode(complete, size, meta) ==
    [kind |-> "file", complete |-> complete, size |-> size, meta |-> meta]

\* os.path.exists, line 157
Exists(f, p) ==
    /\ Len(p) > 0
    /\ Resolve(p) \in DOMAIN f
    /\ p[Len(p)] = "/" => f[Resolve(p)].kind = "dir"

\* os.path.isfile, line 162
IsFile(f, p) == Exists(f, p) /\ f[Resolve(p)].kind = "file"

\* A variant of the directory test that takes nothing for a directory.
IsDirNever(f, p) == FALSE

\* os.path.isdir, line 207
IsDir(f, p) == Exists(f, p) /\ f[Resolve(p)].kind = "dir"

\* os.listdir, line 203: the names of the immediate entries.
ListDir(f, p) ==
    UNION {{q[Len(q)] : q \in {x \in DOMAIN f : Len(x) = Len(r) + 1
                                                /\ SubSeq(x, 1, Len(r)) = r}} :
           r \in {Resolve(p)}}

Put(f, r, node) == [x \in DOMAIN f \cup {r} |-> IF x = r THEN node ELSE f[x]]

Remove(f, r) == [x \in DOMAIN f \ {r} |-> f[x]]

\* os.makedirs(p, exist_ok=True), lines 184 and 200, for a p whose parent
\* exists: nothing when p is a directory, FileExistsError when p is anything
\* else, and otherwise the directory is made unless the system refuses
\* (denied: no permission, read-only medium).
MakeDirs(f, p, denied) ==
    LET r == Resolve(p)
    IN  IF r \in DOMAIN f
        THEN [raised |-> f[r].kind # "dir", fs |-> f]
        ELSE IF denied THEN [raised |-> TRUE, fs |-> f]
        ELSE [raised |-> FALSE, fs |-> Put(f, r, DirNode)]

\* What add_watermark finds at a path: the image Image.open yields, and what
\* is at the output path.
ImageOf(f, p) ==
    CHOOSE image \in {[decodable |-> n.kind = "file" /\ n.complete /\ n.meta.readable,
                       size |-> n.size] : n \in {f[Resolve(p)]}} : TRUE

FileStateAt(f, p) ==
    CHOOSE st \in {IF r \in DOMAIN f /\ f[r].kind = "file"
                   THEN [exists |-> TRUE, complete |-> f[r].complete, size |-> f[r].size]
                   ELSE NoFile : r \in {Resolve(p)}} : TRUE

\* The file system once add_watermark has left `st` at path p.
WriteBack(f, p, st) ==
    CHOOSE g \in {IF st = FileStateAt(f, p) THEN f
                  ELSE IF st.exists
                       THEN Put(f, r, FileNode(st.complete, st.size, PlainMeta))
                       ELSE Remove(f, r) : r \in {Resolve(p)}} : TRUE

(***************************************************************************)
(* Sample directory: pics, in the working directory, holds up to           *)
(* MaxEntries of these entries.                                            *)
(***************************************************************************)
MaxEntries == 2

DirPics == <<"p","i","c","s">>

\* "a.jpg": a photo with a capture time
NameA == <<"a",".","j","p","g">>
\* "B.PNG": an image without EXIF tags, upper-case extension
NameB == <<"B",".","P","N","G">>
\* "c.gif": a damaged image: neither the metadata reader nor the decoder take it
NameC == <<"c",".","g","i","f">>
\* "n.txt": not an image
NameN == <<"n",".","t","x","t">>
\* "s.jpg": a directory whose name ends like an image's
NameS == <<"s",".","j","p","g">>
\* ".bmp": a file whose whole name is a dot and letters
NameDot == <<".","b","m","p">>

EntryUniverse == {NameA, NameB, NameC, NameN, NameS, NameDot}

UniverseNode(name) ==
    CASE name = NameA ->
            FileNode(TRUE, <<100, 50>>,
                     [PlainMeta EXCEPT !.tags = [NoTags EXCEPT ![TagOriginal] = Present(StrOriginal)]])
      [] name = NameB -> FileNode(TRUE, <<2, 1>>, PlainMeta)
      [] name = NameC -> FileNode(FALSE, <<0, 0>>, [PlainMeta EXCEPT !.exif_ok = FALSE])
      [] name = NameN -> FileNode(FALSE, <<0, 0>>, PlainMeta)
      [] name = NameS -> DirNode
      [] name = NameDot -> FileNode(TRUE, <<1, 1>>, PlainMeta)

InitialFs(S) ==
    [p \in {<<>>, <<DirPics>>} \cup {<<DirPics, n>> : n \in S} |->
        IF Len(p) < 2 THEN DirNode ELSE UniverseNode(p[2])]

SampleFileSystems ==
    {InitialFs(S) : S \in {X \in SUBSET EntryUniverse : Cardinality(X) <= MaxEntries}}

(***************************************************************************)
(* What the user may type at the five prompts.                             *)
(***************************************************************************)
\* "nope", " pics", "pics/", "pics/a.jpg", "pics/n.txt", "pics/B.PNG"
TypedPaths ==
    {<<"n","o","p","e">>, <<" ","p","i","c","s">>, <<"p","i","c","s","/">>,
     <<"p","i","c","s","/","a",".","j","p","g">>,
     <<"p","i","c","s","/","n",".","t","x","t">>,
     <<"p","i","c","s","/","B",".","P","N","G">>}

\* "", "12", "abc"
TypedFontSizes == {<<>>, <<"1","2">>, <<"a","b","c">>}

\* "", "RED", "fuchsia", "1, 2,3", "0,256,0", "1,2", "1,x,3"
TypedColors ==
    {<<>>, <<"R","E","D">>, <<"f","u","c","h","s","i","a">>, <<"1",","," ","2",",","3">>,
     <<"0",",","2","5","6",",","0">>, <<"1",",","2">>, <<"1",",","x",",","3">>}

\* "", "center ", "middle", "CENTER"
TypedPositions ==
    {<<>>, <<"c","e","n","t","e","r"," ">>, PosMiddle, <<"C","E","N","T","E","R">>}

\* "", "0", "999", "-1", "abc"
TypedOpacities == {<<>>, <<"0">>, <<"9","9","9">>, <<"-","1">>, <<"a","b","c">>}

(***************************************************************************)
(* main, lines 99-167.                                                     *)
(***************************************************************************)
default_font_size == 20

\* "white", line 107
default_font_color == <<"w","h","i","t","e">>

default_position == PosBottomRight

default_opacity == 128

ColorWhite == <<"w","h","i","t","e">>
ColorBlack == <<"b","l","a","c","k">>
ColorRed == <<"r","e","d">>
ColorGreen == <<"g","r","e","e","n">>
ColorBlue == <<"b","l","u","e">>

\* Lines 172 and 211.
image_extensions ==
    {<<".","j","p","g">>, <<".","j","p","e","g">>, <<".","p","n","g">>,
     <<".","b","m","p">>, <<".","g","i","f">>, <<".","t","i","f","f">>}

\* "_watermark", lines 183 and 199
WatermarkSuffix == <<"_","w","a","t","e","r","m","a","r","k">>

\* A variant that writes the outputs beside the inputs.
OutputDirInPlace(dir_path) == dir_path

\* Lines 183 and 199.
OutputDir(dir_path) == join(dir_path, basename(dir_path) \o WatermarkSuffix)

RaisedPcs ==
    {"raised_113", "raised_122", "raised_184", "raised_194",
     "raised_200", "raised_203", "raised_225"}

Terminated == pc = "done" \/ pc \in RaisedPcs

Init ==
    /\ pc = "prompt_path"
    /\ image_path = <<>> /\ font_size = 0 /\ font_color_str = <<>>
    /\ position = <<>> /\ opacity = 0 /\ font_color = <<>>
    /\ fs \in SampleFileSystems
    /\ fs0 = fs
    /\ msg = {"banner"}
    /\ pending = {} /\ cur = <<>> /\ started = <<>> /\ finished = <<>>
    /\ targets = {} /\ prev_targets = {} /\ run = 1
    /\ exif_in = NoCall /\ exif_out = NoCall
    /\ wm_in = NoCall /\ wm_out = NoCall

\* Line 103.
PromptPath ==
    /\ pc = "prompt_path"
    /\ \E typed \in TypedPaths : image_path' = Strip(typed)
    /\ pc' = "prompt_font_size"
    /\ msg' = {}
    /\ UNCHANGED <<font_size, font_color_str, position, opacity, font_color,
                   fs, fs0, loopVars, runVars, exifVars, wmVars>>

\* Lines 112-113: int() of a text that is no number raises ValueError, which
\* nothing catches.
PromptFontSize ==
    /\ pc = "prompt_font_size"
    /\ \E typed \in TypedFontSizes :
         LET font_size_input == Strip(typed)
             parsed == ParseInt(font_size_input)
         IN  IF font_size_input = <<>>
             THEN font_size' = default_font_size /\ pc' = "prompt_color" /\ msg' = {}
             ELSE IF parsed.ok
             THEN font_size' = parsed.value /\ pc' = "prompt_color" /\ msg' = {}
             ELSE font_size' = font_size /\ pc' = "raised_113" /\ msg' = {"ValueError"}
    /\ UNCHANGED <<image_path, font_color_str, position, opacity, font_color,
                   fs, fs0, loopVars, runVars, exifVars, wmVars>>

\* Lines 115-116.
PromptColor ==
    /\ pc = "prompt_color"
    /\ \E typed \in TypedColors :
         LET font_color_input == Strip(typed)
         IN  font_color_str' = IF font_color_input = <<>>
                               THEN default_font_color ELSE font_color_input
    /\ pc' = "prompt_position"
    /\ msg' = {}
    /\ UNCHANGED <<image_path, font_size, position, opacity, font_color,
                   fs, fs0, loopVars, runVars, exifVars, wmVars>>

\* Lines 118-119.
PromptPosition ==
    /\ pc = "prompt_position"
    /\ \E typed \in TypedPositions :
         LET position_input == Strip(typed)
         IN  position' = IF position_input = <<>>
                         THEN default_position ELSE position_input
    /\ pc' = "prompt_opacity"
    /\ msg' = {}
    /\ UNCHANGED <<image_path, font_size, font_color_str, opacity, font_color,
                   fs, fs0, loopVars, runVars, exifVars, wmVars>>

\* Lines 121-122: int() again, uncaught.
PromptOpacity ==
    /\ pc = "prompt_opacity"
    /\ \E typed \in TypedOpacities :
         LET opacity_input == Strip(typed)
             parsed == ParseInt(opacity_input)
         IN  IF opacity_input = <<>>
             THEN opacity' = default_opacity /\ pc' = "validate_position" /\ msg' = {}
             ELSE IF parsed.ok
             THEN opacity' = parsed.value /\ pc' = "validate_position" /\ msg' = {}
             ELSE opacity' = opacity /\ pc' = "raised_122" /\ msg' = {"ValueError"}
    /\ UNCHANGED <<image_path, font_size, font_color_str, position, font_color,
                   fs, fs0, loopVars, runVars, exifVars, wmVars>>

\* Lines 124-128.
ValidatePosition ==
    /\ pc = "validate_position"
    /\ IF position \notin valid_positions
       THEN msg' = {"warning_position"} /\ position' = default_position
       ELSE msg' = {} /\ position' = position
    /\ pc' = "validate_opacity"
    /\ UNCHANGED <<image_path, font_size, font_color_str, opacity, font_color,
                   fs, fs0, loopVars, runVars, exifVars, wmVars>>

\* Lines 130-133.
ValidateOpacity ==
    /\ pc = "validate_opacity"
    /\ IF ~(0 <= opacity /\ opacity <= 255)
       THEN msg' = {"warning_opacity"} /\ opacity' = default_opacity
       ELSE msg' = {} /\ opacity' = opacity
    /\ pc' = "parse_color"
    /\ UNCHANGED <<image_path, font_size, font_color_str, position, font_color,
                   fs, fs0, loopVars, runVars, exifVars, wmVars>>

\* A variant of the comma-separated form without the range check of line 150.
ParseRgbAnyRange(str) ==
    LET fields == Split(str, ",")
        ints == [i \in 1..Len(fields) |-> ParseInt(fields[i])]
    IN  IF /\ \A i \in 1..Len(fields) : ints[i].ok
           /\ Len(fields) = 3
        THEN [ok |-> TRUE, value |-> [i \in 1..3 |-> ints[i].value]]
        ELSE [ok |-> FALSE, value |-> <<255, 255, 255>>]

\* Lines 147-154: the comma-separated form; ok = FALSE is the ValueError,
\* raised by int or by line 151.
ParseRgb(str) ==
    LET fields == Split(str, ",")
        ints == [i \in 1..Len(fields) |-> ParseInt(fields[i])]
    IN  IF /\ \A i \in 1..Len(fields) : ints[i].ok
           /\ Len(fields) = 3
           /\ \A i \in 1..Len(fields) : 0 <= ints[i].value /\ ints[i].value <= 255
        THEN [ok |-> TRUE, value |-> [i \in 1..3 |-> ints[i].value]]
        ELSE [ok |-> FALSE, value |-> <<255, 255, 255>>]

\* Lines 135-154: the color and whether line 153 printed.
ParseColor(str) ==
    IF lower(str) = ColorWhite THEN [value |-> <<255, 255, 255>>, warned |-> FALSE]
    ELSE IF lower(str) = ColorBlack THEN [value |-> <<0, 0, 0>>, warned |-> FALSE]
    ELSE IF lower(str) = ColorRed THEN [value |-> <<255, 0, 0>>, warned |-> FALSE]
    ELSE IF lower(str) = ColorGreen THEN [value |-> <<0, 255, 0>>, warned |-> FALSE]
    ELSE IF lower(str) = ColorBlue THEN [value |-> <<0, 0, 255>>, warned |-> FALSE]
    ELSE IF ParseRgb(str).ok THEN [value |-> ParseRgb(str).value, warned |-> FALSE]
    ELSE [value |-> <<255, 255, 255>>, warned |-> TRUE]

\* Lines 135-154.
ResolveColor ==
    /\ pc = "parse_color"
    /\ font_color' = ParseColor(font_color_str).value
    /\ msg' = IF ParseColor(font_color_str).warned THEN {"warning_color"} ELSE {}
    /\ pc' = "check_path"
    /\ UNCHANGED <<image_path, font_size, font_color_str, position, opacity,
                   fs, fs0, loopVars, runVars, exifVars, wmVars>>

\* Lines 156-167.
CheckPath ==
    /\ pc = "check_path"
    /\ IF ~Exists(fs, image_path)
       THEN pc' = "done" /\ msg' = {"error_no_such_path"}
       ELSE IF IsFile(fs, image_path)
       THEN pc' = "single_ext" /\ msg' = {}
       ELSE pc' = "dir_mkdir" /\ msg' = {}
    /\ UNCHANGED <<paramVars, fs, fs0, loopVars, runVars, exifVars, wmVars>>

(***************************************************************************)
(* The two calls every processed file gets (lines 187-194 and 218-225).    *)
(***************************************************************************)
DriverEnv == [now |-> NowValue]

\* The fonts of the machine the driver runs on.  A size that is not positive
\* makes truetype raise: a ValueError or, in older libraries, an IOError for
\* every font file.
DriverFonts ==
    IF font_size > 0
    THEN {[os_name |-> "posix", loadable |-> {FontDejaVu}, font_error |-> FALSE]}
    ELSE {[os_name |-> "posix", loadable |-> {}, font_error |-> TRUE],
          [os_name |-> "posix", loadable |-> {}, font_error |-> FALSE]}

DriverMeasure == [has_getbbox |-> TRUE, bbox |-> <<0, 2, 20, 12>>, textsize |-> <<20, 10>>]

DriverWmEnvs == {WmEnv(f, DriverMeasure, sv) : f \in DriverFonts, sv \in SampleSaves}

\* get_exif_datetime(file_path), lines 187 and 218.
CallResolver(file_path) ==
    \E file \in {fs[Resolve(file_path)].meta} :
        /\ exif_in' = [path |-> file_path, file |-> file, env |-> DriverEnv]
        /\ exif_out' = get_exif_datetime(file, DriverEnv)

\* The record of a call add_watermark(file_path, output_path, watermark_text,
\* font_size, font_color, position, opacity), lines 194 and 225, with
\* watermark_text the strftime of the resolved date (lines 188 and 219).
CompositorArgs(file_path, output_path, env) ==
    [path |-> file_path, output_path |-> output_path,
     image |-> ImageOf(fs, file_path), out_before |-> FileStateAt(fs, output_path),
     text |-> strftime(exif_out.value), font_size |-> font_size,
     font_color |-> font_color, position |-> position, opacity |-> opacity,
     env |-> env]

CompositorResult(a) ==
    add_watermark(a.image, a.out_before, a.text, a.font_size, a.font_color,
                  a.position, a.opacity, a.env)

CallCompositor(file_path, output_path, env) ==
    \E a \in {CompositorArgs(file_path, output_path, env)} :
        \E r \in {CompositorResult(a)} :
            /\ wm_in' = a
            /\ wm_out' = r
            /\ fs' = WriteBack(fs, output_path, r.out_after)
            /\ msg' = IF r.ret THEN {"saved"} ELSE {"error_processing"}

Bump(f, name) == [f EXCEPT ![name] = @ + 1]

(***************************************************************************)
(* process_single_file, lines 169-194.                                     *)
(***************************************************************************)
\* Lines 171-176.
SingleExt ==
    /\ pc = "single_ext"
    /\ IF splitext(lower(image_path)) \notin image_extensions
       THEN pc' = "done" /\ msg' = {"skip_not_an_image"}
       ELSE pc' = "single_mkdir" /\ msg' = {}
    /\ UNCHANGED <<paramVars, fs, fs0, loopVars, runVars, exifVars, wmVars>>

\* Lines 178-184.
SingleMkdir ==
    /\ pc = "single_mkdir"
    /\ \E denied \in BOOLEAN :
         \E made \in {MakeDirs(fs, OutputDir(dirname(image_path)), denied)} :
             /\ fs' = made.fs
             /\ pc' = IF made.raised THEN "raised_184" ELSE "single_exif"
             /\ msg' = IF made.raised THEN {"OSError"} ELSE {}
    /\ started' = [n \in {basename(image_path)} |-> 0]
    /\ finished' = [n \in {basename(image_path)} |-> 0]
    /\ UNCHANGED <<paramVars, fs0, pending, cur, targets, runVars, exifVars, wmVars>>

\* Lines 186-188.
SingleExif ==
    /\ pc = "single_exif"
    /\ CallResolver(image_path)
    /\ cur' = basename(image_path)
    /\ started' = Bump(started, basename(image_path))
    /\ msg' = IF exif_out'.printed THEN {"error_exif"} ELSE {}
    /\ pc' = "single_wm"
    /\ UNCHANGED <<paramVars, fs, fs0, pending, finished, targets, runVars, wmVars>>

\* Lines 190-194.
SingleWm ==
    /\ pc = "single_wm"
    /\ \E output_path \in {join(OutputDir(dirname(image_path)), basename(image_path))} :
           /\ \E env \in DriverWmEnvs : CallCompositor(image_path, output_path, env)
           /\ targets' = targets \cup {<<image_path, output_path>>}
    /\ finished' = Bump(finished, cur)
    /\ cur' = <<>>
    /\ pc' = IF wm_out'.raised THEN "raised_194" ELSE "done"
    /\ UNCHANGED <<paramVars, fs0, pending, started, runVars, exifVars>>

(***************************************************************************)
(* process_directory, lines 196-225.                                       *)
(***************************************************************************)
\* Lines 198-200.
DirMkdir ==
    /\ pc = "dir_mkdir"
    /\ \E denied \in BOOLEAN :
         \E made \in {MakeDirs(fs, OutputDir(image_path), denied)} :
             /\ fs' = made.fs
             /\ pc' = IF made.raised THEN "raised_200" ELSE "dir_list"
             /\ msg' = IF made.raised THEN {"OSError"} ELSE {}
    /\ UNCHANGED <<paramVars, fs0, loopVars, runVars, exifVars, wmVars>>

\* Line 203, os.listdir(dir_path): evaluated once, before the first
\* iteration; it may raise (no permission to read the directory).
DirList ==
    /\ pc = "dir_list"
    /\ \/ /\ \E listing \in {ListDir(fs, image_path)} :
                /\ pending' = listing
                /\ started' = [n \in listing |-> 0]
                /\ finished' = [n \in listing |-> 0]
          /\ pc' = "dir_loop"
          /\ msg' = {}
       \/ /\ UNCHANGED <<pending, started, finished>>
          /\ pc' = "raised_203"
          /\ msg' = {"OSError"}
    /\ UNCHANGED <<paramVars, fs, fs0, cur, targets, runVars, exifVars, wmVars>>

\* Lines 203-215, one step of the for loop: the next entry of the listing
\* (os.listdir gives them in no particular order) is skipped as a directory,
\* skipped as not an image, or its processing begins.
DirLoopNext ==
    /\ pc = "dir_loop"
    /\ \E file_name \in pending :
         \E file_path \in {join(image_path, file_name)} :
             /\ pending' = pending \ {file_name}
             /\ IF IsDir(fs, file_path)
                THEN /\ pc' = "dir_loop" /\ msg' = {}
                     /\ UNCHANGED <<cur, started>>
                ELSE IF splitext(lower(file_name)) \notin image_extensions
                THEN /\ pc' = "dir_loop" /\ msg' = {"skip_not_an_image"}
                     /\ UNCHANGED <<cur, started>>
                ELSE /\ pc' = "dir_exif" /\ msg' = {}
                     /\ cur' = file_name
                     /\ started' = Bump(started, file_name)
    /\ UNCHANGED <<paramVars, fs, fs0, finished, targets, runVars, exifVars, wmVars>>

\* Line 203 when the listing is exhausted: process_directory and main return.
DirLoopEnd ==
    /\ pc = "dir_loop"
    /\ pending = {}
    /\ pc' = "done"
    /\ msg' = {}
    /\ UNCHANGED <<paramVars, fs, fs0, loopVars, runVars, exifVars, wmVars>>

\* Lines 217-219.
DirExif ==
    /\ pc = "dir_exif"
    /\ \E file_path \in {join(image_path, cur)} : CallResolver(file_path)
    /\ msg' = IF exif_out'.printed THEN {"error_exif"} ELSE {}
    /\ pc' = "dir_wm"
    /\ UNCHANGED <<paramVars, fs, fs0, loopVars, runVars, wmVars>>

\* Lines 221-225.
DirWm ==
    /\ pc = "dir_wm"
    /\ \E file_path \in {join(image_path, cur)},
          output_path \in {join(OutputDir(image_path), cur)} :
           /\ \E env \in DriverWmEnvs : CallCompositor(file_path, output_path, env)
           /\ targets' = targets \cup {<<file_path, output_path>>}
    /\ finished' = Bump(finished, cur)
    /\ cur' = <<>>
    /\ pc' = IF wm_out'.raised THEN "raised_225" ELSE "dir_loop"
    /\ UNCHANGED <<paramVars, fs0, pending, started, runVars, exifVars>>

Next ==
    \/ PromptPath \/ PromptFontSize \/ PromptColor \/ PromptPosition \/ PromptOpacity
    \/ ValidatePosition \/ ValidateOpacity \/ ResolveColor \/ CheckPath
    \/ SingleExt \/ SingleMkdir \/ SingleExif \/ SingleWm
    \/ DirMkdir \/ DirList \/ DirLoopNext \/ DirLoopEnd \/ DirExif \/ DirWm

Spec == Init /\ [][Next]_vars

(***************************************************************************)
(* Directory mode alone: main at the path check (line 156) after the user  *)
(* typed the path of the sample directory, Enter or 0 for the font size    *)
(* (ImageFont.truetype rejects a size of 0) and Enter at the other three   *)
(* optional prompts.                                                       *)
(***************************************************************************)
MaxRuns == 2

\* "pics", "pics/"
TypedDirectories == {DirPics, <<"p","i","c","s","/">>}

InitBatch ==
    /\ pc = "check_path"
    /\ image_path \in TypedDirectories
    /\ font_size \in {default_font_size, 0}
    /\ font_color_str = default_font_color
    /\ position = default_position
    /\ opacity = default_opacity
    /\ font_color = <<255, 255, 255>>
    /\ fs \in SampleFileSystems
    /\ fs0 = fs
    /\ msg = {}
    /\ pending = {} /\ cur = <<>> /\ started = <<>> /\ finished = <<>>
    /\ targets = {} /\ prev_targets = {} /\ run = 1
    /\ exif_in = NoCall /\ exif_out = NoCall
    /\ wm_in = NoCall /\ wm_out = NoCall

NextBatch ==
    \/ CheckPath
    \/ DirMkdir \/ DirList \/ DirLoopNext \/ DirLoopEnd \/ DirExif \/ DirWm

SpecBatch == InitBatch /\ [][NextBatch]_vars

\* The program is sequential and nothing it waits for is modelled as absent:
\* a step that can be taken is taken.
FairBatch == SpecBatch /\ WF_vars(NextBatch)

\* Lines 227-228, the program started again with the same answers at the
\* prompts, after a run that returned: main is back at the path check with
\* the same parameters and the file system the earlier run left.
Restart ==
    /\ pc = "done"
    /\ run < MaxRuns
    /\ run' = run + 1
    /\ prev_targets' = targets
    /\ targets' = {}
    /\ pending' = {} /\ cur' = <<>> /\ started' = <<>> /\ finished' = <<>>
    /\ exif_in' = NoCall /\ exif_out' = NoCall
    /\ wm_in' = NoCall /\ wm_out' = NoCall
    /\ msg' = {}
    /\ pc' = "check_path"
    /\ UNCHANGED <<paramVars, fs, fs0>>

NextRerun == NextBatch \/ Restart

SpecRerun == InitBatch /\ [][NextRerun]_vars

(***************************************************************************)
(* C1: when open and metadata extraction succeed, the value returned is    *)
(* that of the first tag, in the order EXIF DateTimeOriginal, EXIF         *)
(* DateTimeDigitized, Image DateTime, that is present and parses; a        *)
(* present tag that does not parse is skipped, so a later tag is returned  *)
(* only when every earlier one is absent or unparseable.                   *)
(***************************************************************************)
ClaimedTagOrder ==
    <<"EXIF DateTimeOriginal", "EXIF DateTimeDigitized", "Image DateTime">>

Usable(tags, name) == tags[name].present /\ strptime(tags[name].value).ok

ExtractionSucceeded ==
    exif_out # NoCall /\ exif_in.file.readable /\ exif_in.file.exif_ok

C1_TagPriority ==
    ExtractionSucceeded =>
        \A i \in 1..Len(ClaimedTagOrder) :
            (/\ Usable(exif_in.file.tags, ClaimedTagOrder[i])
             /\ \A j \in 1..(i - 1) : ~Usable(exif_in.file.tags, ClaimedTagOrder[j]))
            => exif_out.value = strptime(exif_in.file.tags[ClaimedTagOrder[i]].value).value

\* DateTimeOriginal present but unparseable, DateTimeDigitized returned.
C1_Witness ==
    /\ ExtractionSucceeded
    /\ exif_in.file.tags[TagOriginal].present
    /\ ~Usable(exif_in.file.tags, TagOriginal)
    /\ Usable(exif_in.file.tags, TagDigitized)
    /\ Usable(exif_in.file.tags, TagImage)
    /\ exif_out.value = <<2019, 12, 31, 23, 59, 59>>

(***************************************************************************)
(* C2: get_exif_datetime never raises and always returns a timestamp; it   *)
(* returns the last-modified time when extraction succeeds and no tag      *)
(* parses, and the current time only when open, extraction or the read of  *)
(* the modification time raised.                                           *)
(***************************************************************************)
NoUsableTag(tags) == \A n \in TagNames : ~Usable(tags, n)

IsTimestamp(v) ==
    /\ Len(v) = 6
    /\ v[1] >= 1 /\ v[2] \in 1..12 /\ v[3] \in 1..DaysInMonth(v[1], v[2])
    /\ v[4] \in 0..23 /\ v[5] \in 0..59 /\ v[6] \in 0..59

C2_Fallbacks ==
    exif_out # NoCall =>
        LET f == exif_in.file
        IN  /\ exif_out.kind = "return"
            /\ IsTimestamp(exif_out.value)
            /\ (f.readable /\ f.exif_ok /\ NoUsableTag(f.tags) /\ f.mtime_ok)
                   => (exif_out.value = f.mtime /\ ~exif_out.printed)
            /\ (exif_out.value = exif_in.env.now)
                   => (~f.readable \/ ~f.exif_ok \/ ~f.mtime_ok)
            /\ (~f.readable \/ ~f.exif_ok \/ (NoUsableTag(f.tags) /\ ~f.mtime_ok))
                   => (exif_out.value = exif_in.env.now /\ exif_out.printed)

\* Extraction succeeded, every tag present but none parses: the mtime.
C2_Witness ==
    /\ ExtractionSucceeded
    /\ \A n \in TagNames : exif_in.file.tags[n].present
    /\ NoUsableTag(exif_in.file.tags)
    /\ exif_in.file.mtime_ok
    /\ exif_out.value = MtimeValue

\* The read of the modification time raised: the current time.
C2_WitnessNow ==
    /\ ExtractionSucceeded
    /\ NoUsableTag(exif_in.file.tags)
    /\ ~exif_in.file.mtime_ok
    /\ exif_out.value = NowValue

(***************************************************************************)
(* C3: for an image of size (W, H) and a measured text size (w, h) the     *)
(* text is drawn at (10, 10) for top_left, (W - w - 10, 10) for top_right, *)
(* (10, H - h - 10) for bottom_left, (W - w - 10, H - h - 10) for          *)
(* bottom_right and for every value that is none of the five, and          *)
(* ((W - w) div 2, (H - h) div 2) for center; W=100, H=50, w=20, h=10      *)
(* gives (40, 20) for center and (70, 30) for bottom_right.                *)
(***************************************************************************)
MeasuredW == IF wm_in.env.has_getbbox
             THEN wm_in.env.bbox[3] - wm_in.env.bbox[1] ELSE wm_in.env.textsize[1]

MeasuredH == IF wm_in.env.has_getbbox
             THEN wm_in.env.bbox[4] - wm_in.env.bbox[2] ELSE wm_in.env.textsize[2]

ClaimedPositions == {PosTopLeft, PosTopRight, PosBottomLeft, PosBottomRight, PosCenter}

\* The floor of a / 2, stated without a division.
IsHalfFloor(q, a) == 2 * q <= a /\ a < 2 * q + 2

C3_Positions ==
    (wm_out # NoCall /\ wm_out.drew) =>
        LET W == wm_in.image.size[1]    H == wm_in.image.size[2]
            w == MeasuredW              h == MeasuredH
            p == wm_in.position
            x == wm_out.xy[1]           y == wm_out.xy[2]
        IN  /\ p = PosTopLeft => (x = 10 /\ y = 10)
            /\ p = PosTopRight => (x = W - w - 10 /\ y = 10)
            /\ p = PosBottomLeft => (x = 10 /\ y = H - h - 10)
            /\ p = PosBottomRight => (x = W - w - 10 /\ y = H - h - 10)
            /\ p = PosCenter => (IsHalfFloor(x, W - w) /\ IsHalfFloor(y, H - h))
            /\ p \notin ClaimedPositions => (x = W - w - 10 /\ y = H - h - 10)
            /\ (W = 100 /\ H = 50 /\ w = 20 /\ h = 10) =>
                  /\ p = PosCenter => wm_out.xy = <<40, 20>>
                  /\ p = PosBottomRight => wm_out.xy = <<70, 30>>

\* The spec's example, centred.
C3_Witness ==
    /\ wm_out # NoCall /\ wm_out.drew
    /\ wm_in.image.size = <<100, 50>> /\ MeasuredW = 20 /\ MeasuredH = 10
    /\ wm_in.position = PosCenter
    /\ wm_out.xy = <<40, 20>>

\* Text wider than the image by an odd amount, centred: the floor is taken.
C3_WitnessNegative ==
    /\ wm_out # NoCall /\ wm_out.drew
    /\ wm_in.image.size[1] = 1 /\ MeasuredW = 20
    /\ wm_in.position = PosCenter
    /\ wm_out.xy[1] = -10

\* An unknown position value is drawn at the bottom right.
C3_WitnessUnknown ==
    /\ wm_out # NoCall /\ wm_out.drew
    /\ wm_in.image.size = <<100, 50>> /\ MeasuredW = 20 /\ MeasuredH = 10
    /\ wm_in.position = PosMiddle
    /\ wm_out.xy = <<70, 30>>

(***************************************************************************)
(* C9: each call of add_watermark either returns True and leaves at        *)
(* output_path a whole image whose pixel size is that of the input image,  *)
(* or returns False and leaves output_path as it was before the call.      *)
(***************************************************************************)
C9_AllOrNothing ==
    wm_out # NoCall =>
        \/ /\ wm_out.ret
           /\ wm_out.out_after = WholeFile(wm_in.image.size)
        \/ /\ ~wm_out.ret
           /\ wm_out.out_after = wm_in.out_before

\* The part of C9 that holds: a True return leaves a whole image of the
\* input's size, and a failure before save opens output_path changes nothing.
C9_SuccessKeepsSize ==
    wm_out # NoCall =>
        /\ wm_out.ret => wm_out.out_after = WholeFile(wm_in.image.size)
        /\ (~wm_out.ret /\ ~(wm_out.drew /\ wm_in.env.save = "fail_after_open"))
              => wm_out.out_after = wm_in.out_before

(***************************************************************************)
(* C4: every call of add_watermark the driver makes receives an opacity in *)
(* 0..255, a color of three channels in 0..255 and one of the five         *)
(* positions; an integer opacity outside 0..255 becomes 128, a position    *)
(* outside the five becomes bottom_right, and a color that is neither one  *)
(* of the five names (in any case) nor three comma-separated integers in   *)
(* 0..255 becomes (255, 255, 255).                                         *)
(***************************************************************************)
ClaimedColorNames == {ColorWhite, ColorBlack, ColorRed, ColorGreen, ColorBlue}

IsRgbTriple(str) ==
    LET fields == Split(str, ",")
    IN  /\ Len(fields) = 3
        /\ \A i \in 1..3 : ParseInt(fields[i]).ok /\ ParseInt(fields[i]).value \in 0..255

StyleReceived ==
    wm_in # NoCall =>
        /\ wm_in.opacity \in 0..255
        /\ Len(wm_in.font_color) = 3
        /\ \A i \in 1..3 : wm_in.font_color[i] \in 0..255
        /\ wm_in.position \in ClaimedPositions
        /\ (lower(font_color_str) \notin ClaimedColorNames /\ ~IsRgbTriple(font_color_str))
              => wm_in.font_color = <<255, 255, 255>>

StyleCoerced ==
    /\ pc = "validate_position" =>
          position' = IF position \in ClaimedPositions THEN position ELSE PosBottomRight
    /\ pc = "validate_opacity" =>
          opacity' = IF opacity \in 0..255 THEN opacity ELSE 128
    /\ pc \in {"check_path", "single_ext", "single_mkdir", "single_exif", "single_wm",
               "dir_mkdir", "dir_list", "dir_loop", "dir_exif", "dir_wm"} =>
          UNCHANGED <<position, opacity, font_color, font_color_str>>

C4_ValidStyle == [](StyleReceived) /\ [][StyleCoerced]_vars

\* "0,256,0" typed as the color, and the compositor called with white.
C4_Witness ==
    /\ wm_in # NoCall
    /\ font_color_str = <<"0",",","2","5","6",",","0">>
    /\ wm_in.font_color = <<255, 255, 255>>
    /\ wm_in.opacity = 128
    /\ wm_in.position = PosBottomRight

(***************************************************************************)
(* C5: no input at the optional prompts aborts the run: whatever is typed  *)
(* for font size, color, position and opacity, main reaches the check of   *)
(* the input path.                                                         *)
(***************************************************************************)
C5_NoAbortAtPrompts == pc \notin {"raised_113", "raised_122"}

(***************************************************************************)
(* C6: when the entered input path does not exist, main prints an error    *)
(* and returns, and nothing else happens: no file is processed, no output  *)
(* directory is made, no metadata is read, no file is written.             *)
(***************************************************************************)
PathEntered == pc # "prompt_path"

NothingDone ==
    /\ fs = fs0
    /\ exif_in = NoCall /\ wm_in = NoCall
    /\ targets = {} /\ started = <<>>

C6_MissingPath ==
    (PathEntered /\ ~Exists(fs0, image_path) /\ Terminated) =>
        /\ pc = "done"
        /\ msg = {"error_no_such_path"}
        /\ NothingDone

\* The part of C6 that holds in every run: with a path that does not exist
\* nothing is ever done, and a run that returns has printed the error.
C6_NoAction ==
    (PathEntered /\ ~Exists(fs0, image_path)) =>
        /\ NothingDone
        /\ pc \notin {"single_ext", "single_mkdir", "single_exif", "single_wm",
                      "dir_mkdir", "dir_list", "dir_loop", "dir_exif", "dir_wm"}
        /\ pc = "done" => msg = {"error_no_such_path"}

(***************************************************************************)
(* C7: the date resolver and the compositor are called for an entry only   *)
(* if it is not a directory and its name ends, in any case, in .jpg,       *)
(* .jpeg, .png, .bmp, .gif or .tiff; directory mode takes only immediate   *)
(* entries of the input directory and never a subdirectory; single-file    *)
(* mode on any other extension calls neither, makes no output directory    *)
(* and writes nothing.                                                     *)
(***************************************************************************)
ClaimedExtensions ==
    {<<".","j","p","g">>, <<".","j","p","e","g">>, <<".","p","n","g">>,
     <<".","b","m","p">>, <<".","g","i","f">>, <<".","t","i","f","f">>}

EndsWith(str, suffix) ==
    /\ Len(str) >= Len(suffix)
    /\ SubSeq(str, Len(str) - Len(suffix) + 1, Len(str)) = suffix

HasImageExtension(p) == \E e \in ClaimedExtensions : EndsWith(lower(p), e)

IsImageFile(p) ==
    /\ Resolve(p) \in DOMAIN fs0
    /\ fs0[Resolve(p)].kind = "file"
    /\ HasImageExtension(p)

InputIsDirectory ==
    PathEntered /\ Exists(fs0, image_path) /\ fs0[Resolve(image_path)].kind = "dir"

InputIsFile ==
    PathEntered /\ Exists(fs0, image_path) /\ fs0[Resolve(image_path)].kind = "file"

ImmediateEntry(p) ==
    LET d == Resolve(image_path)
    IN  Len(Resolve(p)) = Len(d) + 1 /\ SubSeq(Resolve(p), 1, Len(d)) = d

C7_OnlyImages ==
    /\ exif_in # NoCall => IsImageFile(exif_in.path)
    /\ wm_in # NoCall => IsImageFile(wm_in.path)
    /\ InputIsDirectory =>
          /\ exif_in # NoCall => ImmediateEntry(exif_in.path)
          /\ wm_in # NoCall => ImmediateEntry(wm_in.path)
          /\ \A n \in DOMAIN started :
                fs[Resolve(image_path) \o <<n>>].kind = "dir" => started[n] = 0
    /\ (InputIsFile /\ ~HasImageExtension(image_path)) =>
          /\ exif_in = NoCall /\ wm_in = NoCall
          /\ fs = fs0

\* Directory mode finished on a directory that holds a subdirectory named
\* like an image and a photo: the photo was processed, the subdirectory not.
C7_Witness ==
    /\ pc = "done" /\ InputIsDirectory
    /\ NameS \in DOMAIN started /\ started[NameS] = 0
    /\ NameA \in DOMAIN started /\ finished[NameA] = 1

\* Single-file mode finished on n.txt.
C7_WitnessText ==
    /\ pc = "done" /\ InputIsFile
    /\ basename(image_path) = NameN
    /\ msg = {"skip_not_an_image"}
    /\ fs = fs0

(***************************************************************************)
(* C8: in directory mode a failure on one file never stops the batch:      *)
(* add_watermark answers False, every eligible entry of the listing is     *)
(* attempted exactly once, one after another, and the run ends having      *)
(* attempted them all.                                                     *)
(***************************************************************************)
InBatch == pc \in {"dir_loop", "dir_exif", "dir_wm"}

Eligible(n) ==
    /\ fs[Resolve(image_path) \o <<n>>].kind = "file"
    /\ splitext(lower(n)) \in ClaimedExtensions

InProgress == {n \in DOMAIN started : started[n] > finished[n]}

CallFailed ==
    \/ ~wm_in.image.decodable
    \/ wm_in.env.font_error
    \/ wm_in.env.save # "ok"

BatchSafe ==
    /\ \A n \in DOMAIN started : started[n] <= 1 /\ finished[n] <= started[n]
    /\ \A n \in DOMAIN started : started[n] = 1 => Eligible(n)
    /\ Cardinality(InProgress) = IF pc \in {"dir_exif", "dir_wm"} THEN 1 ELSE 0
    /\ pc \in {"dir_exif", "dir_wm"} => InProgress = {cur}
    /\ wm_out # NoCall => (~wm_out.raised /\ (wm_out.ret <=> ~CallFailed))
    /\ pc \notin {"raised_194", "raised_225"}

BatchComplete ==
    /\ pc = "done"
    /\ \A n \in DOMAIN started : Eligible(n) => (started[n] = 1 /\ finished[n] = 1)

C8_BatchNeverStops ==
    /\ [](BatchSafe)
    /\ [](pc = "done" => BatchComplete)
    /\ [](InBatch => <>BatchComplete)

\* The damaged image failed and the photo was still processed, or the other
\* way round in time: both attempted, one False and one True.
C8_Witness ==
    /\ pc = "done"
    /\ NameA \in DOMAIN started /\ NameC \in DOMAIN started
    /\ finished[NameA] = 1 /\ finished[NameC] = 1
    /\ wm_out # NoCall /\ wm_in.path = join(image_path, NameA) /\ wm_out.ret
    /\ Resolve(join(OutputDir(image_path), NameC)) \notin DOMAIN fs

(***************************************************************************)
(* C10: in directory mode every output goes to                             *)
(* <D>/<basename(D)>_watermark/<file name>, in a child directory of D that *)
(* the enumeration skips; no run writes to the path of one of its inputs,  *)
(* no output of an earlier run is an input of a later one, and a second    *)
(* run on the unchanged inputs processes the same files and targets the    *)
(* same output paths as the first.                                         *)
(***************************************************************************)
ClaimedOutputDir == Resolve(image_path) \o <<basename(image_path) \o <<"_","w","a","t","e","r","m","a","r","k">>>>

RerunStable ==
    /\ \A t \in targets :
          /\ Resolve(t[2]) = ClaimedOutputDir \o <<basename(t[1])>>
          /\ ImmediateEntry(t[1])
          /\ fs[ClaimedOutputDir].kind = "dir"
          /\ Len(ClaimedOutputDir) = Len(Resolve(image_path)) + 1
          /\ \A n \in DOMAIN started : Resolve(t[2]) # Resolve(image_path) \o <<n>>
          /\ \A u \in targets \cup prev_targets : Resolve(t[1]) # Resolve(u[2])
    /\ InBatch =>
          /\ ClaimedOutputDir[Len(ClaimedOutputDir)] \in DOMAIN started
          /\ started[ClaimedOutputDir[Len(ClaimedOutputDir)]] = 0
    /\ \A p \in DOMAIN fs0 : fs0[p].kind = "file" => (p \in DOMAIN fs /\ fs[p] = fs0[p])
    /\ (run > 1 /\ pc = "done") => targets = prev_targets

C10_RerunSameInputs == RerunStable

\* A second run finished after a first that wrote an output.
C10_Witness ==
    /\ run = 2 /\ pc = "done"
    /\ targets # {} /\ targets = prev_targets
    /\ \E t \in targets : Resolve(t[2]) \in DOMAIN fs

====
